---- MODULE Spec2Model ----
(***************************************************************************)
(* Model of triage_automation.py: classify_issue (interpretation of the   *)
(* classification service's response) and process_issues (the per-item    *)
(* decision loop and the tracker mutations it issues).                     *)
(*                                                                         *)
(* Python values are modelled as follows.  A str is a TLA+ string.  The    *)
(* values None and a JSON number are the sentinel strings None and JNum,   *)
(* which no text of the model equals.  A JSON object is a function from    *)
(* the keys it holds to their values, so a missing key is a name outside   *)
(* its DOMAIN.  A title is a sequence of characters, so that lower() and   *)
(* the substring test are computed.  Diacritics of the display names are   *)
(* written with a following apostrophe, and the three-backquote code       *)
(* fence is written [fence].                                               *)
(***************************************************************************)
EXTENDS Integers, Sequences, FiniteSets, TLC

(* ---------------------------- bounds ----------------------------------- *)

MaxIssues == 2

(* ---------------------------- Python values ---------------------------- *)

None == "<None>"
JNum == "<5>"
NoneRec == [id |-> None, name |-> None]

(* str.lower() on the texts of the model *)
Lower(s) ==
    CASE s = "Billing" -> "billing"
      [] s = "BILLING" -> "billing"
      [] s = "Pricing" -> "pricing"
      [] s = "Storage" -> "storage"
      [] s = "UX" -> "ux"
      [] s = "Mobile" -> "mobile"
      [] s = "API" -> "api"
      [] s = "Sure, here's my answer: Billing" -> "sure, here's my answer: billing"
      [] s = "jsonBilling" -> "jsonbilling"
      [] s = "jsonSure, here's my answer: Billing" -> "jsonsure, here's my answer: billing"
      [] s = "Owner C" -> "owner c"
      [] s = "Owner X" -> "owner x"
      [] s = "Vladimir Krska" -> "vladimir krska"
      [] s = "Zuzana Bednarova" -> "zuzana bednarova"
      [] s = "Jiri Zavora" -> "jiri zavora"
      [] s = "Vladimi'r Kris'ka" -> "vladimi'r kris'ka"
      [] s = "Zuzana Bedna'r'ova'" -> "zuzana bedna'r'ova'"
      [] s = "Jir'i' Za'vora" -> "jir'i' za'vora"
      [] s = "JIR'I' ZA'VORA" -> "jir'i' za'vora"
      [] OTHER -> s

(* str.lower() on one character of a title *)
LowerChar(c) ==
    CASE c = "A" -> "a"
      [] c = "D" -> "d"
      [] c = "E" -> "e"
      [] c = "I" -> "i"
      [] c = "N" -> "n"
      [] c = "T" -> "t"
      [] c = "V" -> "v"
      [] c = "X" -> "x"
      [] OTHER -> c

LowerSeq(t) == [i \in 1..Len(t) |-> LowerChar(t[i])]

(* the Python test  k in t  on two strings *)
Contains(t, k) ==
    \E i \in 0..(Len(t) - Len(k)) : \A j \in 1..Len(k) : t[i + j] = k[j]

(* the Python truth value of a str, None or non-zero number *)
Truthy(v) == v /= None /\ v /= ""

(* whether a value has the method lower() *)
IsStr(v) == v /= None /\ v /= JNum

(* dict.get(k, d) *)
Get(d, k, dflt) == IF k \in DOMAIN d THEN d[k] ELSE dflt

(* ---------------------------- configuration ---------------------------- *)

OWNER_NAME_MAP ==
    [n \in {"Vladimir Krska", "Zuzana Bednarova", "Jiri Zavora"} |->
        CASE n = "Vladimir Krska" -> "Vladimi'r Kris'ka"
          [] n = "Zuzana Bednarova" -> "Zuzana Bedna'r'ova'"
          [] n = "Jiri Zavora" -> "Jir'i' Za'vora"]

NativeDatatypes ==
    <<"n","a","t","i","v","e"," ","d","a","t","a","t","y","p","e","s">>

FEATURE_OWNER_OVERRIDES ==
    << [feature |-> NativeDatatypes, owner |-> "Zuzana Bednarova"] >>

NEEDS_REVIEW_LABEL == "needs-review"

normalize_owner_name(name) == Get(OWNER_NAME_MAP, name, name)

(* the mapping load_bucket_mapping returns: lower-cased topic name to owner, *)
(* only rows with both a name and an owner                                   *)
bucket_mapping ==
    [b \in {"billing", "pricing", "storage", "ux", "api"} |->
        CASE b = "billing" -> "Owner C"
          [] b = "pricing" -> "Owner C"
          [] b = "storage" -> "Vladimir Krska"
          [] b = "ux" -> "Owner X"
          [] b = "api" -> "Jiri Zavora"]

bucket_names == DOMAIN bucket_mapping

(* ---------------------------- the response ----------------------------- *)
(* The stripped text of the service's reply (line 440) is described by its *)
(* syntax: an optional code fence around it, an optional language tag      *)
(* "json" in front of the payload, and the payload, which is text that is  *)
(* not JSON (kind "text"), JSON that is not an object (kind "value") or a  *)
(* JSON object (kind "object").                                            *)

Fence == "[fence]"

EmptyObj == [k \in {} |-> None]

JsonOf(v) ==
    IF v = None THEN "null"
    ELSE IF v = JNum THEN "5"
    ELSE "\"" \o v \o "\""

FieldText(obj, k) ==
    IF k \in DOMAIN obj THEN "\"" \o k \o "\": " \o JsonOf(obj[k]) \o ", " ELSE ""

PayloadText(r) ==
    IF r.kind = "object"
    THEN "{" \o FieldText(r.obj, "primary_bucket") \o FieldText(r.obj, "secondary_bucket")
             \o FieldText(r.obj, "confidence") \o FieldText(r.obj, "reasoning") \o "}"
    ELSE r.text

LangTag(r) == IF r.lang THEN "json" ELSE ""

(* message.content[0].text.strip(): the whole text the service returned *)
RawText(r) ==
    IF r.fence
    THEN Fence \o LangTag(r) \o PayloadText(r) \o Fence
    ELSE LangTag(r) \o PayloadText(r)

(* response_text after lines 445-448: a leading fence is split off and a *)
(* leading "json" is removed only inside a fence                         *)
Unfenced(r) == IF r.fence THEN PayloadText(r) ELSE RawText(r)

(* whether json.loads accepts Unfenced(r) *)
JsonLoads(r) == (r.fence \/ ~r.lang) /\ r.kind \in {"value", "object"}

ClassificationResult(p, s, c, why) ==
    [exc |-> None, primary_bucket |-> p, secondary_bucket |-> s,
     confidence |-> c, reasoning |-> why]

Raised(e) ==
    [exc |-> e, primary_bucket |-> None, secondary_bucket |-> None,
     confidence |-> None, reasoning |-> None]

(* the value of the variable classification while classify_issue has not *)
(* been called for the item                                             *)
NotClassified == Raised("not called")

(* lines 464-469: the primary topic is replaced by the catalog key it *)
(* matches case-insensitively                                         *)
ValidatePrimary(primary) ==
    IF \E name \in bucket_names : Lower(name) = Lower(primary)
    THEN CHOOSE name \in bucket_names : Lower(name) = Lower(primary)
    ELSE primary

Reconcile_AnyConfidence(primary, secondary, confidence) ==
    IF Truthy(secondary)
    THEN LET primary_owner == Get(bucket_mapping, Lower(primary), "")
             secondary_owner == Get(bucket_mapping, Lower(secondary), "")
         IN  IF primary_owner /= "" /\ secondary_owner /= ""
                /\ primary_owner = secondary_owner
             THEN "high" ELSE confidence
    ELSE confidence

(* lines 471-477 *)
Reconcile(primary, secondary, confidence) ==
    IF Truthy(secondary) /\ confidence = "low"
    THEN LET primary_owner == Get(bucket_mapping, Lower(primary), "")
             secondary_owner == Get(bucket_mapping, Lower(secondary), "")
         IN  IF primary_owner /= "" /\ secondary_owner /= ""
                /\ primary_owner = secondary_owner
             THEN "high" ELSE confidence
    ELSE confidence

(* lines 459-484, on the parsed object *)
Interpret(result) ==
    LET primary == Get(result, "primary_bucket", "UX")
        secondary == Get(result, "secondary_bucket", None)
        confidence == Get(result, "confidence", "low")
        reasoning == Get(result, "reasoning", "")
    IN  IF ~IsStr(primary) THEN Raised("AttributeError")
        ELSE IF Truthy(secondary) /\ confidence = "low" /\ ~IsStr(secondary)
             THEN Raised("AttributeError")
        ELSE ClassificationResult(ValidatePrimary(primary), secondary,
                 Reconcile(ValidatePrimary(primary), secondary, confidence),
                 reasoning)

ParseFailure_FallbackTopic(r) ==
    ClassificationResult("UX", None, "low", "Failed to parse AI response")

(* lines 450-457: the fallback when json.loads raises JSONDecodeError *)
ParseFailure(r) ==
    ClassificationResult(Unfenced(r), None, "low", "Failed to parse AI response")

(* lines 440-484: what classify_issue does with the reply r *)
classify_issue(r) ==
    IF ~JsonLoads(r)
    THEN ParseFailure(r)
    ELSE IF r.kind = "value" THEN Raised("AttributeError")
    ELSE Interpret(r.obj)

(* ---------------------------- the replies ------------------------------ *)

Reply(f, l, k, t, o) == [fence |-> f, lang |-> l, kind |-> k, text |-> t, obj |-> o]

Keys == {"primary_bucket", "secondary_bucket", "confidence", "reasoning"}

PrimaryValues == {None, "Billing", "BILLING", "Storage", "Mobile"}
SecondaryValues == {None, JNum, "", "Pricing", "Billing"}
ConfidenceValues == {None, "high", "low", "medium"}
ReasoningValues == {"because"}

ValuesOf(k) ==
    CASE k = "primary_bucket" -> PrimaryValues
      [] k = "secondary_bucket" -> SecondaryValues
      [] k = "confidence" -> ConfidenceValues
      [] k = "reasoning" -> ReasoningValues

(* the JSON objects: any subset of the four keys, any value under each *)
Objects ==
    UNION { { o \in [ks -> PrimaryValues \cup SecondaryValues \cup ConfidenceValues
                              \cup ReasoningValues] :
                \A k \in ks : o[k] \in ValuesOf(k) } : ks \in SUBSET Keys }

NonJsonTexts == {"Billing", "Sure, here's my answer: Billing"}
NonObjectJson == {"[1]", "5", "null"}

(* every reply classify_issue is checked on *)
Responses ==
    { Reply(f, l, "text", t, EmptyObj) : f \in BOOLEAN, l \in BOOLEAN, t \in NonJsonTexts }
    \cup { Reply(f, l, "value", t, EmptyObj) : f \in BOOLEAN, l \in BOOLEAN, t \in NonObjectJson }
    \cup { Reply(f, l, "object", "", o) : f \in BOOLEAN, l \in BOOLEAN, o \in Objects }

Obj(p, s, c) ==
    [k \in Keys |-> CASE k = "primary_bucket" -> p
                      [] k = "secondary_bucket" -> s
                      [] k = "confidence" -> c
                      [] k = "reasoning" -> "because"]

(* the replies the service gives during a run: one for each path through *)
(* classify_issue and process_issues                                     *)
ServiceReplies ==
    { Reply(FALSE, FALSE, "object", "", Obj("Billing", None, "high")),
      Reply(TRUE, TRUE, "object", "", Obj("BILLING", "Pricing", "low")),
      Reply(FALSE, FALSE, "object", "", Obj("Storage", "Billing", "low")),
      Reply(FALSE, FALSE, "object", "", Obj("Billing", "Pricing", "medium")),
      Reply(FALSE, FALSE, "object", "", Obj("Mobile", None, "low")),
      Reply(FALSE, FALSE, "object", "", Obj("API", None, "high")),
      Reply(FALSE, FALSE, "object", "", [k \in {"confidence"} |-> "high"]),
      Reply(FALSE, FALSE, "object", "", Obj(None, None, "high")),
      Reply(FALSE, FALSE, "value", "[1]", EmptyObj),
      Reply(FALSE, FALSE, "text", "Sure, here's my answer: Billing", EmptyObj),
      Reply(FALSE, FALSE, "text", "Billing", EmptyObj),
      Reply(TRUE, FALSE, "text", "Billing", EmptyObj) }

(* ---------------------------- the items -------------------------------- *)

TitleOverride ==
    <<"A","d","d"," ","N","A","T","I","V","E"," ","D","a","t","a","t","y","p","e","s">>
TitlePlain == <<"E","x","p","o","r","t"," ","d","a","t","a">>

Titles == {TitleOverride, TitlePlain}

(* the team members get_team_members returned; the last one is listed *)
(* under a display name that differs in case from the name table's    *)
team_members ==
    << [id |-> "u1", name |-> "Zuzana Bedna'r'ova'"],
       [id |-> "u2", name |-> "Owner C"],
       [id |-> "u3", name |-> "Vladimi'r Kris'ka"],
       [id |-> "u4", name |-> "JIR'I' ZA'VORA"] >>

Assignees == {NoneRec, [id |-> "u2", name |-> "Owner C"]}

Issue(i, t, a) == [id |-> i, identifier |-> i, title |-> t, assignee |-> a]

(* the lists get_triage_issues can return, identifiers unique *)
IssueLists ==
    UNION { { [i \in 1..n |-> Issue(i, f[i][1], f[i][2])] : f \in [1..n -> Titles \X Assignees] }
            : n \in 1..MaxIssues }

(* ---------------------------- state ------------------------------------ *)

VARIABLES
    issues,                 \* the list process_issues was called with
    dry_run,                \* the mode
    pc,                     \* "running", "done", "aborted"; "interpret", "interpreted"
    idx,                    \* position of the loop of line 518
    results,                \* the records appended so far
    needs_review_label_id,  \* the memoized label id
    calls,                  \* the external calls issued so far, in order
    response,               \* the reply to the latest classification request
    classification,         \* what classify_issue made of it
    owner_name,             \* the latest item's owner_name at line 577
    member                  \* the latest item's member at line 578

vars == <<issues, dry_run, pc, idx, results, needs_review_label_id, calls,
          response, classification, owner_name, member>>

NoReply == Reply(FALSE, FALSE, "none", "", EmptyObj)

Call(op, i, arg, ok) == [op |-> op, item |-> i, arg |-> arg, ok |-> ok]

Init ==
    /\ issues \in IssueLists
    /\ dry_run \in BOOLEAN
    /\ pc = "running"
    /\ idx = 1
    /\ results = <<>>
    /\ needs_review_label_id = None
    /\ calls = <<>>
    /\ response = NoReply
    /\ classification = NotClassified
    /\ owner_name = None
    /\ member = NoneRec

(* ---------------------------- process_issues --------------------------- *)

(* lines 506-513: the last member written under a key wins *)
WritesKey(m, key) ==
    \/ Lower(m.name) = key
    \/ \E csv_name \in DOMAIN OWNER_NAME_MAP :
          m.name = OWNER_NAME_MAP[csv_name] /\ Lower(csv_name) = key

member_lookup(key) ==
    LET writers == { i \in 1..Len(team_members) : WritesKey(team_members[i], key) }
    IN  IF writers = {} THEN NoneRec
        ELSE team_members[CHOOSE i \in writers : \A j \in writers : j <= i]

(* lines 550-557: the first registered keyword found in the lowered title *)
RECURSIVE OverrideFrom(_, _)
OverrideFrom(k, title_lower) ==
    IF k > Len(FEATURE_OWNER_OVERRIDES) THEN None
    ELSE IF Contains(title_lower, FEATURE_OWNER_OVERRIDES[k].feature)
         THEN FEATURE_OWNER_OVERRIDES[k].owner
         ELSE OverrideFrom(k + 1, title_lower)

ResolveOwnerName_TopicFirst(title, bucket) ==
    LET override == OverrideFrom(1, LowerSeq(title))
    IN  IF Lower(bucket) \in DOMAIN bucket_mapping THEN bucket_mapping[Lower(bucket)]
        ELSE override

(* lines 550-561 *)
ResolveOwnerName(title, bucket) ==
    LET override == OverrideFrom(1, LowerSeq(title))
    IN  IF Truthy(override) THEN override
        ELSE Get(bucket_mapping, Lower(bucket), None)

FindMember_RawOnly(owner) == member_lookup(Lower(owner))

(* lines 577-578 *)
FindMember(owner) ==
    IF member_lookup(Lower(owner)) /= NoneRec
    THEN member_lookup(Lower(owner))
    ELSE member_lookup(Lower(normalize_owner_name(owner)))

ExecuteMode_Always == TRUE

(* line 611: the else branch *)
ExecuteMode == ~dry_run

Running == pc = "running" /\ idx <= Len(issues)

Finish(rec, newcalls, r, cls, own, mem, lbl) ==
    /\ results' = Append(results, rec)
    /\ calls' = calls \o newcalls
    /\ response' = r
    /\ classification' = cls
    /\ owner_name' = own
    /\ member' = mem
    /\ needs_review_label_id' = lbl
    /\ idx' = idx + 1
    /\ UNCHANGED <<issues, dry_run, pc>>

(* lines 527-536 *)
SkipAssigned ==
    /\ Running
    /\ issues[idx].assignee /= NoneRec
    /\ Finish([identifier |-> issues[idx].identifier, title |-> issues[idx].title,
               action |-> "skipped",
               reason |-> "Already assigned to " \o issues[idx].assignee.name],
              <<>>, NoReply, NotClassified, None, NoneRec, needs_review_label_id)

(* lines 540-542 with 434-440 and 459-474: the request fails, or        *)
(* classify_issue raises on the reply; process_issues has no handler    *)
(* around the call, so the exception leaves process_issues and main     *)
ClassifyRaises ==
    /\ Running
    /\ issues[idx].assignee = NoneRec
    /\ \/ /\ response' = NoReply
          /\ classification' = Raised("APIError")
          /\ calls' = Append(calls, Call("classify", idx, None, FALSE))
       \/ \E r \in ServiceReplies :
          /\ classify_issue(r).exc /= None
          /\ response' = r
          /\ classification' = classify_issue(r)
          /\ calls' = Append(calls, Call("classify", idx, None, TRUE))
    /\ pc' = "aborted"
    /\ UNCHANGED <<issues, dry_run, idx, results, needs_review_label_id,
                   owner_name, member>>

Classified_OwnerNotChecked(r, cls) ==
    /\ Running
    /\ cls = classify_issue(r)
    /\ cls.exc = None

(* lines 528 and 540-542: the item at idx is unowned and classify_issue *)
(* returned cls for the reply r                                         *)
Classified(r, cls) ==
    /\ Running
    /\ issues[idx].assignee = NoneRec
    /\ cls = classify_issue(r)
    /\ cls.exc = None

(* lines 563-572 *)
NoOwner ==
    \E r \in ServiceReplies :
      LET cls == classify_issue(r)
          bucket == cls.primary_bucket
          own == ResolveOwnerName(issues[idx].title, bucket)
      IN  /\ Classified(r, cls)
          /\ ~Truthy(own)
          /\ Finish([identifier |-> issues[idx].identifier, title |-> issues[idx].title,
                     bucket |-> bucket, action |-> "error",
                     reason |-> "No owner found for bucket '" \o bucket \o "'"],
                    <<Call("classify", idx, None, TRUE)>>,
                    r, cls, own, NoneRec, needs_review_label_id)

(* lines 576-590 *)
NoMember ==
    \E r \in ServiceReplies :
      LET cls == classify_issue(r)
          bucket == cls.primary_bucket
          own == ResolveOwnerName(issues[idx].title, bucket)
      IN  /\ Classified(r, cls)
          /\ Truthy(own)
          /\ FindMember(own) = NoneRec
          /\ Finish([identifier |-> issues[idx].identifier, title |-> issues[idx].title,
                     bucket |-> bucket, owner |-> own, action |-> "error",
                     reason |-> "Owner '" \o own \o "' not found in Linear team"],
                    <<Call("classify", idx, None, TRUE)>>,
                    r, cls, own, NoneRec, needs_review_label_id)

(* lines 592-624 *)
WouldAssign ==
    \E r \in ServiceReplies :
      LET cls == classify_issue(r)
          bucket == cls.primary_bucket
          own == ResolveOwnerName(issues[idx].title, bucket)
          mem == FindMember(own)
      IN  /\ Classified(r, cls)
          /\ Truthy(own)
          /\ mem /= NoneRec
          /\ ~ExecuteMode
          /\ Finish([identifier |-> issues[idx].identifier, title |-> issues[idx].title,
                     bucket |-> bucket, owner |-> mem.name,
                     confidence |-> cls.confidence, action |-> "would_assign"],
                    <<Call("classify", idx, None, TRUE)>>,
                    r, cls, own, mem, needs_review_label_id)

LabelId == "label-1"

(* the id the label lookup of lines 631-632 leaves in needs_review_label_id *)
LabelAfterLookup(cur) == IF cur = None THEN LabelId ELSE cur

LookupNeeded_EveryTime(add_needs_review, cur) == add_needs_review

(* line 631: whether get_or_create_label is called for this item *)
LookupNeeded(add_needs_review, cur) == add_needs_review /\ cur = None

LabelIds_Never(add_needs_review, lbl) == None

(* lines 629-633: the label_ids handed to assign_issue *)
LabelIds(add_needs_review, lbl) == IF add_needs_review THEN lbl ELSE None

ErrorRecord_FixedReason(bucket, mem, msg) ==
    [identifier |-> issues[idx].identifier, title |-> issues[idx].title,
     bucket |-> bucket, owner |-> mem.name, action |-> "error",
     reason |-> "Failed to assign"]

(* lines 651-660: the record of the except branch, reason = str(e) *)
ErrorRecord(bucket, mem, msg) ==
    [identifier |-> issues[idx].identifier, title |-> issues[idx].title,
     bucket |-> bucket, owner |-> mem.name, action |-> "error", reason |-> msg]

TrackerCalls_CommentFirst(failed, c_label, c_assign, c_comment) ==
    CASE failed = "label" -> c_label
      [] failed = "comment" -> c_label \o c_comment
      [] OTHER -> c_label \o c_comment \o c_assign

(* lines 629-640: the tracker calls issued, in order, up to the one that *)
(* raises: the label lookup if needed, assign_issue, add_comment         *)
TrackerCalls(failed, c_label, c_assign, c_comment) ==
    CASE failed = "label" -> c_label
      [] failed = "assign" -> c_label \o c_assign
      [] OTHER -> c_label \o c_assign \o c_comment

(* lines 625-660: the tracker calls of one item and the record they end in. *)
(* failed names the call that raises: "label", "assign", "comment" or "no". *)
Assign ==
    \E r \in ServiceReplies, failed \in {"label", "assign", "comment", "no"} :
      LET cls == classify_issue(r)
          bucket == cls.primary_bucket
          own == ResolveOwnerName(issues[idx].title, bucket)
          mem == FindMember(own)
          add_needs_review == cls.confidence = "low"
          lookup == LookupNeeded(add_needs_review, needs_review_label_id)
          lbl == IF lookup /\ failed /= "label"
                 THEN LabelAfterLookup(needs_review_label_id)
                 ELSE needs_review_label_id
          label_ids == LabelIds(add_needs_review, lbl)
          c_classify == <<Call("classify", idx, None, TRUE)>>
          c_label == IF lookup
                     THEN <<Call("get_or_create_label", idx, NEEDS_REVIEW_LABEL,
                                 failed /= "label")>>
                     ELSE <<>>
          c_assign == <<Call("assign_issue", idx, label_ids, failed /= "assign")>>
          c_comment == <<Call("add_comment", idx, None, failed /= "comment")>>
          c_tracker == TrackerCalls(failed, c_label, c_assign, c_comment)
      IN  /\ Classified(r, cls)
          /\ Truthy(own)
          /\ mem /= NoneRec
          /\ ExecuteMode
          /\ failed = "label" => lookup
          /\ CASE failed = "label" ->
                    Finish(ErrorRecord(bucket, mem, "get_or_create_label failed"),
                           c_classify \o c_tracker, r, cls, own, mem, lbl)
               [] failed = "assign" ->
                    Finish(ErrorRecord(bucket, mem, "assign_issue failed"),
                           c_classify \o c_tracker, r, cls, own, mem, lbl)
               [] failed = "comment" ->
                    Finish(ErrorRecord(bucket, mem, "add_comment failed"),
                           c_classify \o c_tracker, r, cls, own, mem, lbl)
               [] OTHER ->
                    Finish([identifier |-> issues[idx].identifier,
                            title |-> issues[idx].title,
                            bucket |-> bucket, owner |-> mem.name,
                            confidence |-> cls.confidence, action |-> "assigned"],
                           c_classify \o c_tracker, r, cls, own, mem, lbl)

(* line 662 *)
Return ==
    /\ pc = "running"
    /\ idx > Len(issues)
    /\ pc' = "done"
    /\ UNCHANGED <<issues, dry_run, idx, results, needs_review_label_id, calls,
                   response, classification, owner_name, member>>

Next ==
    \/ SkipAssigned
    \/ ClassifyRaises
    \/ NoOwner
    \/ NoMember
    \/ WouldAssign
    \/ Assign
    \/ Return

Spec == Init /\ [][Next]_vars

(* ---------------------------- main: the summary ------------------------ *)

IsAssigned(rec) == rec.action \in {"assigned", "would_assign"}
IsHigh(rec) == IsAssigned(rec) /\ Get(rec, "confidence", None) = "high"
IsLow(rec) == IsAssigned(rec) /\ Get(rec, "confidence", None) = "low"

(* lines 739-743 *)
assigned == Cardinality({ i \in 1..Len(results) : IsAssigned(results[i]) })
high_conf == Cardinality({ i \in 1..Len(results) : IsHigh(results[i]) })
low_conf == Cardinality({ i \in 1..Len(results) : IsLow(results[i]) })

(* ---------------------------- classify_issue alone --------------------- *)
(* classify_issue as a function of the reply: the reply is drawn from     *)
(* Responses and one step applies classify_issue to it.                   *)

InitInterpret ==
    /\ issues = <<>>
    /\ dry_run = TRUE
    /\ pc = "interpret"
    /\ idx = 1
    /\ results = <<>>
    /\ needs_review_label_id = None
    /\ calls = <<>>
    /\ response \in Responses
    /\ classification = NotClassified
    /\ owner_name = None
    /\ member = NoneRec

ClassifyIssue ==
    /\ pc = "interpret"
    /\ classification' = classify_issue(response)
    /\ pc' = "interpreted"
    /\ UNCHANGED <<issues, dry_run, idx, results, needs_review_label_id, calls,
                   response, owner_name, member>>

NextInterpret == ClassifyIssue

SpecInterpret == InitInterpret /\ [][NextInterpret]_vars

(* ---------------------------- properties ------------------------------- *)

CallsOf(i) == { k \in 1..Len(calls) : calls[k].item = i }

Mutations == {"get_or_create_label", "assign_issue", "add_comment"}

(* the item processed last, once one has been processed to its record *)
Last == idx - 1

LastClassified ==
    /\ idx > 1
    /\ pc /= "aborted"
    /\ issues[Last].assignee = NoneRec

(* C1: every processed item that had an owner has the record 'skipped'   *)
(* with a reason naming that owner, and no classification request and    *)
(* no tracker call was issued for it, in either mode.                    *)
C1_OwnedItemSkipped ==
    \A i \in 1..Len(issues) :
        (i < idx /\ issues[i].assignee /= NoneRec) =>
            /\ i <= Len(results)
            /\ results[i].action = "skipped"
            /\ results[i].reason = "Already assigned to " \o issues[i].assignee.name
            /\ CallsOf(i) = {}

C1_Witness ==
    /\ ~dry_run
    /\ Len(results) = 2
    /\ issues[1].assignee /= NoneRec
    /\ results[1].action = "skipped"
    /\ results[2].action = "assigned"

(* C2: when the title of the unowned item processed last contains a      *)
(* registered keyword, whatever its case, the owner name taken to the    *)
(* roster is that keyword's owner, whatever classify_issue returned.     *)
C2_OverrideWins ==
    LastClassified =>
        \A k \in 1..Len(FEATURE_OWNER_OVERRIDES) :
            Contains(LowerSeq(issues[Last].title), FEATURE_OWNER_OVERRIDES[k].feature)
                => owner_name = FEATURE_OWNER_OVERRIDES[k].owner

C2_Witness ==
    /\ LastClassified
    /\ issues[Last].title = TitleOverride
    /\ classification.primary_bucket = "billing"
    /\ bucket_mapping["billing"] = "Owner C"
    /\ owner_name = "Zuzana Bednarova"
    /\ member.id = "u1"

SameOwnerNamed(r) ==
    /\ JsonLoads(r)
    /\ r.kind = "object"
    /\ {"primary_bucket", "secondary_bucket"} \subseteq DOMAIN r.obj
    /\ IsStr(r.obj["primary_bucket"])
    /\ IsStr(r.obj["secondary_bucket"])
    /\ r.obj["primary_bucket"] /= r.obj["secondary_bucket"]
    /\ Lower(r.obj["primary_bucket"]) \in DOMAIN bucket_mapping
    /\ Lower(r.obj["secondary_bucket"]) \in DOMAIN bucket_mapping
    /\ bucket_mapping[Lower(r.obj["primary_bucket"])]
         = bucket_mapping[Lower(r.obj["secondary_bucket"])]

(* C3 as stated: when the reply names a primary and a secondary topic that the     *)
(* catalog maps to the same owner, classify_issue returns confidence     *)
(* 'high', whatever confidence the reply reported.                       *)
C3_SameOwnerIsHigh ==
    (pc = "interpreted" /\ SameOwnerNamed(response)) =>
        (classification.exc = None /\ classification.confidence = "high")

(* whether the review label id was handed to assign_issue for item i *)
LabelPassed(i) ==
    \E k \in CallsOf(i) : calls[k].op = "assign_issue" /\ calls[k].arg /= None

(* whether an assign_issue carrying the review label succeeded for item i *)
MarkerApplied(i) ==
    \E k \in CallsOf(i) :
        calls[k].op = "assign_issue" /\ calls[k].arg /= None /\ calls[k].ok

LabelLookupFailed(i) ==
    \E k \in CallsOf(i) : calls[k].op = "get_or_create_label" /\ ~calls[k].ok

TrackerFailures ==
    {"get_or_create_label failed", "assign_issue failed", "add_comment failed"}

(* the decision a record stands for: an error record whose reason is a *)
(* tracker failure belongs to an item that was being assigned          *)
Decision(rec) ==
    CASE rec.action = "skipped" -> "skipped"
      [] rec.action \in {"assigned", "would_assign"} -> "assigned"
      [] rec.action = "error" /\ rec.reason \in TrackerFailures -> "assigned"
      [] OTHER -> "flagged"

(* C4 as stated: the needs-review marker is applied to an item if and    *)
(* only if its record is 'assigned' with confidence 'low'; every         *)
(* assigned record carries a roster member.                              *)
C4_Original ==
    \A i \in 1..Len(results) :
        /\ MarkerApplied(i) <=>
              (results[i].action = "assigned" /\ Get(results[i], "confidence", None) = "low")
        /\ results[i].action = "assigned" => results[i].owner /= None

(* C4 amended: the review label id is handed to assign_issue exactly for *)
(* an item that, in execute mode, was resolved to a roster member with   *)
(* confidence 'low' and whose label lookup did not fail; a record        *)
(* 'assigned' therefore has it iff its confidence is 'low', and every    *)
(* assigned or would_assign record carries a roster member.  The record  *)
(* of such an item can still be 'error' (a later call failed).           *)
C4_MarkerRule ==
    /\ \A i \in 1..Len(results) :
          /\ results[i].action = "assigned" =>
                (LabelPassed(i) <=> results[i].confidence = "low")
          /\ LabelPassed(i) => (~dry_run /\ Decision(results[i]) = "assigned")
          /\ results[i].action \in {"assigned", "would_assign"} =>
                \E m \in 1..Len(team_members) : team_members[m].name = results[i].owner
    /\ LastClassified =>
          /\ LabelPassed(Last) <=>
                /\ ~dry_run
                /\ member /= NoneRec
                /\ classification.confidence = "low"
                /\ ~LabelLookupFailed(Last)
          /\ results[Last].action \in {"assigned", "would_assign"} =>
                (member /= NoneRec /\ results[Last].owner = member.name)

C4_Witness ==
    /\ LastClassified
    /\ results[Last].action = "assigned"
    /\ results[Last].confidence = "low"
    /\ LabelPassed(Last)
    /\ member /= NoneRec

(* C5: the run always completes: no failure of an external call aborts   *)
(* it, a failed call leaves an error record for its item, and at the end *)
(* there is one record per input item, in order.                         *)
C5_RunCompletes ==
    /\ pc /= "aborted"
    /\ \A k \in 1..Len(calls) :
          ~calls[k].ok =>
              (calls[k].item <= Len(results) /\ results[calls[k].item].action = "error")
    /\ pc = "done" =>
          /\ Len(results) = Len(issues)
          /\ \A i \in 1..Len(issues) : results[i].identifier = issues[i].identifier

(* C6: a tracker mutation is issued for an item only in execute mode and *)
(* only when the item's decision is 'assigned'; a skipped or flagged     *)
(* item, and any item of a dry run, gets no mutation, only a record with *)
(* identifier, title, action and reason.                                 *)
C6_MutationsOnlyWhenAssigning ==
    /\ \A k \in 1..Len(calls) :
          calls[k].op \in Mutations =>
              /\ ~dry_run
              /\ calls[k].item <= Len(results)
              /\ Decision(results[calls[k].item]) = "assigned"
    /\ \A i \in 1..Len(results) :
          Decision(results[i]) \in {"skipped", "flagged"} =>
              {"identifier", "title", "action", "reason"} \subseteq DOMAIN results[i]
    /\ Len(results) = idx - 1

C6_Witness ==
    /\ ~dry_run
    /\ Len(results) = 2
    /\ Decision(results[1]) = "flagged"
    /\ results[2].action = "assigned"
    /\ \E k \in CallsOf(2) : calls[k].op = "add_comment"

LabelCalls == { k \in 1..Len(calls) : calls[k].op = "get_or_create_label" }

(* C7 as stated: get_or_create_label is called at most once in a run,    *)
(* whatever the external calls do.                                       *)
C7_Original == Cardinality(LabelCalls) <= 1

(* C7 amended: get_or_create_label returns at most once in a run and is  *)
(* never called after it has returned; it is called only while no item   *)
(* has had the label passed; every label id handed to assign_issue is    *)
(* the id that call returned.  A call that raises leaves the id unset,   *)
(* so that the next low-confidence assignment calls again.               *)
C7_LabelMemoized ==
    /\ Cardinality({ k \in LabelCalls : calls[k].ok }) <= 1
    /\ \A j \in LabelCalls, k \in LabelCalls : j < k => ~calls[j].ok
    /\ \A k \in LabelCalls : \A j \in 1..(k - 1) :
          calls[j].op = "assign_issue" => calls[j].arg = None
    /\ \A k \in 1..Len(calls) :
          (calls[k].op = "assign_issue" /\ calls[k].arg /= None) =>
              /\ calls[k].arg = needs_review_label_id
              /\ \E j \in LabelCalls : j < k /\ calls[j].ok

C7_Witness ==
    /\ Len(results) = 2
    /\ LabelPassed(1)
    /\ LabelPassed(2)
    /\ Cardinality(LabelCalls) = 1

NoOverrideIn(title) ==
    \A k \in 1..Len(FEATURE_OWNER_OVERRIDES) :
        ~Contains(LowerSeq(title), FEATURE_OWNER_OVERRIDES[k].feature)

C9_NeverRaises ==
    pc = "interpreted" =>
        /\ classification.exc = None
        /\ (JsonLoads(response) /\ response.kind = "object") =>
              /\ "reasoning" \notin DOMAIN response.obj =>
                    classification.reasoning = ""
              /\ "primary_bucket" \notin DOMAIN response.obj =>
                    Lower(classification.primary_bucket) = Lower("UX")
              /\ "confidence" \notin DOMAIN response.obj =>
                    classification.confidence \in {"low", "high"}

(* C10: every result of classify_issue has confidence 'high' or 'low',   *)
(* so the high and low counts of the summary add up to the number of     *)
(* assigned items.                                                       *)
C10_ConfidenceIsEnum ==
    /\ classification.exc = None => classification.confidence \in {"high", "low"}
    /\ high_conf + low_conf = assigned

InRoster(name) ==
    \E m \in 1..Len(team_members) : Lower(team_members[m].name) = Lower(name)

(* whether the roster holds the owner under the name as written or under *)
(* the display name the name table gives for it                          *)
KnownToRoster(name) ==
    \/ InRoster(name)
    \/ name \in DOMAIN OWNER_NAME_MAP /\ InRoster(OWNER_NAME_MAP[name])
    \/ \E m \in 1..Len(team_members) :
          \E csv_name \in DOMAIN OWNER_NAME_MAP :
              /\ OWNER_NAME_MAP[csv_name] = team_members[m].name
              /\ Lower(csv_name) = Lower(name)

(* C11: for the unowned item processed last the steps run in order: with *)
(* no override and no catalog owner of the primary topic the item is     *)
(* flagged with a reason naming the topic and no roster member is looked *)
(* up; with an owner name that the roster holds neither as written nor   *)
(* normalized it is flagged with a reason naming the owner; it is        *)
(* assigned (or would be) only when both steps succeed.                  *)
C11_DecisionOrder ==
    LastClassified =>
        LET bucket == classification.primary_bucket
            rec == results[Last]
            noName == /\ NoOverrideIn(issues[Last].title)
                      /\ Lower(bucket) \notin DOMAIN bucket_mapping
        IN  /\ noName <=> owner_name = None
            /\ noName =>
                  /\ rec.action = "error"
                  /\ rec.reason = "No owner found for bucket '" \o bucket \o "'"
                  /\ "owner" \notin DOMAIN rec
                  /\ member = NoneRec
            /\ (~noName /\ ~KnownToRoster(owner_name)) =>
                  /\ rec.action = "error"
                  /\ rec.reason = "Owner '" \o owner_name \o "' not found in Linear team"
                  /\ member = NoneRec
            /\ (~noName /\ KnownToRoster(owner_name)) =>
                  /\ member /= NoneRec
                  /\ Decision(rec) = "assigned"
                  /\ rec.owner = member.name
            /\ Decision(rec) = "assigned" => (~noName /\ KnownToRoster(owner_name))

C11_Witness ==
    /\ Len(results) = 2
    /\ LastClassified
    /\ results[1].action = "error"
    /\ "owner" \notin DOMAIN results[1]
    /\ results[2].action = "error"
    /\ owner_name = "Owner X"
    /\ results[2].reason = "Owner 'Owner X' not found in Linear team"

(* an owner found in the roster only under its normalized name *)
C11_NormalizedWitness ==
    /\ LastClassified
    /\ owner_name = "Jiri Zavora"
    /\ member.id = "u4"
    /\ results[Last].action = "would_assign"

FailureMessage(op) == op \o " failed"

(* C12: in execute mode, when a tracker call made to apply an assignment *)
(* raises (label lookup, assign or comment), the item's record has       *)
(* action 'error' and the failure's message as reason, no further        *)
(* tracker call is made for the item, and the loop moves to the next     *)
(* item.                                                                 *)
C12_TrackerFailureIsErrorRecord ==
    \A k \in 1..Len(calls) :
        (calls[k].op \in Mutations /\ ~calls[k].ok) =>
            LET i == calls[k].item
            IN  /\ ~dry_run
                /\ i <= Len(results)
                /\ i < idx
                /\ results[i].action = "error"
                /\ results[i].reason = FailureMessage(calls[k].op)
                /\ results[i].identifier = issues[i].identifier
                /\ \A j \in CallsOf(i) : j <= k

C12_Witness ==
    /\ Len(results) = 2
    /\ results[1].action = "error"
    /\ results[1].reason = "assign_issue failed"
    /\ results[2].action = "assigned"
    /\ \E k \in CallsOf(1) : calls[k].op = "assign_issue" /\ ~calls[k].ok

(* the confidence the reply reported, 'low' when it reported none *)
Reported(r) == IF "confidence" \in DOMAIN r.obj THEN r.obj["confidence"] ELSE "low"

(* the reply names a secondary topic and the catalog gives the primary *)
(* and the secondary topic the same owner                              *)
SecondarySharesOwner(r) ==
    /\ "secondary_bucket" \in DOMAIN r.obj
    /\ r.obj["secondary_bucket"] \notin {None, JNum, ""}
    /\ Lower(r.obj["secondary_bucket"]) \in DOMAIN bucket_mapping
    /\ "primary_bucket" \in DOMAIN r.obj
    /\ Lower(r.obj["primary_bucket"]) \in DOMAIN bucket_mapping
    /\ bucket_mapping[Lower(r.obj["primary_bucket"])]
          = bucket_mapping[Lower(r.obj["secondary_bucket"])]

(* C13: on a reply that is a JSON object, classify_issue returns the     *)
(* reported confidence unchanged except in one case: reported 'low', a   *)
(* secondary topic present, and primary and secondary owned by the same  *)
(* catalog owner, which gives 'high'; a reported 'high' stays 'high'.    *)
C13_OnlyUpgrade ==
    (pc = "interpreted" /\ JsonLoads(response) /\ response.kind = "object"
        /\ classification.exc = None) =>
        /\ classification.confidence =
              IF Reported(response) = "low" /\ SecondarySharesOwner(response)
              THEN "high" ELSE Reported(response)
        /\ Reported(response) = "high" => classification.confidence = "high"

C13_Witness ==
    /\ pc = "interpreted"
    /\ JsonLoads(response)
    /\ response.kind = "object"
    /\ DOMAIN response.obj = Keys
    /\ response.obj["confidence"] = "low"
    /\ response.obj["primary_bucket"] = "BILLING"
    /\ response.obj["secondary_bucket"] = "Pricing"
    /\ classification.confidence = "high"

CommentPosted(i) ==
    \E k \in CallsOf(i) : calls[k].op = "add_comment" /\ calls[k].ok

(* whether an assign_issue call of this run succeeded for item i *)
AssignedInTracker(i) ==
    \E k \in CallsOf(i) : calls[k].op = "assign_issue" /\ calls[k].ok

(* C14 as stated: the comment is posted only after the item's assign     *)
(* mutation succeeded, a record 'assigned' needs both mutations to have  *)
(* succeeded, and no item recorded 'error' was assigned in the tracker.  *)
C14_Original ==
    /\ \A k \in 1..Len(calls) :
          calls[k].op = "add_comment" =>
              \E j \in 1..(k - 1) :
                  /\ calls[j].op = "assign_issue"
                  /\ calls[j].item = calls[k].item
                  /\ calls[j].ok
    /\ \A i \in 1..Len(results) :
          /\ results[i].action = "assigned" => (AssignedInTracker(i) /\ CommentPosted(i))
          /\ results[i].action = "error" => ~AssignedInTracker(i)

(* C14 amended: the comment is posted only after the item's assign       *)
(* mutation succeeded, and a record 'assigned' needs both mutations to   *)
(* have succeeded; an item recorded 'error' was assigned in the tracker  *)
(* exactly when its assign mutation succeeded and its comment mutation   *)
(* then failed, and was not assigned when the label lookup or the assign *)
(* mutation failed or when it was flagged.                               *)
C14_CommentAfterAssign ==
    /\ \A k \in 1..Len(calls) :
          calls[k].op = "add_comment" =>
              \E j \in 1..(k - 1) :
                  /\ calls[j].op = "assign_issue"
                  /\ calls[j].item = calls[k].item
                  /\ calls[j].ok
    /\ \A i \in 1..Len(results) :
          /\ results[i].action = "assigned" => (AssignedInTracker(i) /\ CommentPosted(i))
          /\ results[i].action = "error" =>
                (AssignedInTracker(i) <=>
                    \E k \in CallsOf(i) : calls[k].op = "add_comment" /\ ~calls[k].ok)
          /\ results[i].action \in {"skipped", "would_assign"} => ~AssignedInTracker(i)

C14_Witness ==
    /\ Len(results) = 2
    /\ results[1].action = "error"
    /\ AssignedInTracker(1)
    /\ ~CommentPosted(1)
    /\ results[2].action = "assigned"
    /\ CommentPosted(2)
====
